---- MODULE Spec2Model ----
(***************************************************************************)
(* State machine of the Home page component (frontend/src/pages/Home.jsx): *)
(* the feed store (posts), the session read from AuthContext, the remote   *)
(* calls in flight with the render snapshot each handler closed over, and  *)
(* the ephemeral UI state that gates which handler can be invoked.         *)
(*                                                                         *)
(* A step is one event of the single-threaded event loop: a UI event, a    *)
(* session change, or the completion of one remote call.  The passive      *)
(* effects (useEffect) that the event's state changes trigger are part of  *)
(* the same step, since React flushes them before the next event.          *)
(***************************************************************************)
EXTENDS Integers, Sequences, FiniteSets, Bags, TLC

VARIABLES
  user,                \* AuthContext: the session, NoUser when logged out
  showAuthForm,        \* AuthContext: the auth modal is open
  isLogin,             \* AuthContext: the modal shows login (not register)
  posts,               \* useState([])  line 20: the Feed Store
  filteredPosts,       \* useState([])  line 21
  loading,             \* useState(false) line 22
  newComments,         \* useState({})  line 23: draft per post id
  editingCommentId,    \* useState(null) line 24
  editedCommentText,   \* useState("")  line 25
  activeCommentPostId, \* useState(null) line 26
  showReactions,       \* useState(null) line 27
  showShareOptions,    \* useState(null) line 28
  selectedTag,         \* useState("All") line 30
  searchQuery,         \* useState("")  line 31
  error,               \* useState("")  line 34
  inflight,            \* bag of remote calls awaiting their response
  calls,               \* remote calls issued so far (bounded by MaxCalls)
  gestures,            \* UI-only events so far (bounded by MaxGestures)
  delivered,           \* history: last version stored for each post id
  last                 \* history: the event of the last step

ctxVars == <<user, showAuthForm, isLogin>>
storeVars == <<posts, filteredPosts, loading>>
uiVars == <<newComments, editingCommentId, editedCommentText,
            activeCommentPostId, showReactions, showShareOptions, error>>
filterVars == <<selectedTag, searchQuery>>
netVars == <<inflight, calls>>
vars == <<ctxVars, storeVars, uiVars, filterVars, netVars, gestures,
          delivered, last>>

-----------------------------------------------------------------------------
(* Bounds of the model *)
MaxPosts == 2      \* post ids 1..MaxPosts
MaxVersions == 2   \* versions of a post the remote service may return
MaxText == 1       \* length of a text typed into a draft or an edit box
MaxInFlight == 2   \* remote calls awaiting a response at once
MaxCalls == 3      \* remote calls issued in one run
MaxGestures == 3   \* UI-only events (typing, toggling, hovering) in one run
MaxWriteCalls == 2 \* remote calls issued in one run of SpecWrites

PostIds == 1 .. MaxPosts
Versions == 1 .. MaxVersions

-----------------------------------------------------------------------------
(* JavaScript strings are sequences of one-character strings. *)
Chars == {" ", "a"}

RECURSIVE TextsOfLen(_)
TextsOfLen(n) ==
  IF n = 0 THEN {<<>>}
  ELSE {Append(s, c) : s \in TextsOfLen(n - 1), c \in Chars}

Texts == UNION {TextsOfLen(n) : n \in 0 .. MaxText}

IsSpace(c) == c = " "

RECURSIVE TrimStart(_)
TrimStart(s) ==
  IF s # <<>> /\ IsSpace(Head(s)) THEN TrimStart(Tail(s)) ELSE s

RECURSIVE TrimEnd(_)
TrimEnd(s) ==
  IF s # <<>> /\ IsSpace(s[Len(s)])
    THEN TrimEnd(SubSeq(s, 1, Len(s) - 1))
    ELSE s

\* String.prototype.trim
Trim(s) == TrimEnd(TrimStart(s))

ToLowerChar(c) ==
  CASE c = "A" -> "a"
    [] c = "B" -> "b"
    [] c = "M" -> "m"
    [] OTHER -> c

\* String.prototype.toLowerCase
ToLowerCase(s) == [i \in 1 .. Len(s) |-> ToLowerChar(s[i])]

\* String.prototype.includes
Includes(s, q) ==
  \E i \in 1 .. (Len(s) - Len(q) + 1) : SubSeq(s, i, i + Len(q) - 1) = q

\* String.prototype.split(","): the tokens between the commas, empty ones kept
RECURSIVE SplitFrom(_, _)
SplitFrom(s, cur) ==
  IF s = <<>> THEN <<cur>>
  ELSE IF Head(s) = "," THEN <<cur>> \o SplitFrom(Tail(s), <<>>)
  ELSE SplitFrom(Tail(s), Append(cur, Head(s)))

SplitComma(s) == SplitFrom(s, <<>>)

\* post.tags.split(",").map((tag) => tag.trim())
TagTokens(tags) ==
  LET parts == SplitComma(tags) IN [i \in 1 .. Len(parts) |-> Trim(parts[i])]

InSeq(x, s) == \E i \in 1 .. Len(s) : s[i] = x

RECURSIVE SelectSeqBy(_, _)
\* Array.prototype.filter with the predicate given as a set of kept values
SelectSeqBy(s, keep) ==
  IF s = <<>> THEN <<>>
  ELSE IF Head(s) \in keep THEN <<Head(s)>> \o SelectSeqBy(Tail(s), keep)
  ELSE SelectSeqBy(Tail(s), keep)

Range(s) == {s[i] : i \in 1 .. Len(s)}

-----------------------------------------------------------------------------
(* Data: user ids arrive as JSON numbers or as strings, so an id carries   *)
(* its JavaScript type; === compares type and value, String() erases the   *)
(* type.                                                                   *)
NumId(n) == [k |-> "number", v |-> n]
StrId(n) == [k |-> "string", v |-> n]

\* String(id)
JsString(id) == [k |-> "string", v |-> id.v]

\* The sessions AuthContext can hold: {id, token}; token "" is a missing token
Sessions ==
  { [id |-> NumId(1), token |-> "t1"],
    [id |-> NumId(2), token |-> "t2"],
    [id |-> StrId(1), token |-> ""] }

ReactionTypes == {"LIKE", "LOVE"}

Comment(cid, uid, text) == [id |-> cid, text |-> text, user |-> [id |-> uid]]

\* Comment ids are unique across posts: the k-th comment of post pid
CommentId(pid, k) == 10 * pid + k

\* What the remote service may hold for post pid: version v
ServerComments(pid, v) ==
  IF v = 1 THEN <<Comment(CommentId(pid, 1), NumId(1), <<"a">>)>>
  ELSE <<Comment(CommentId(pid, 1), NumId(1), <<"a", "a">>),
         Comment(CommentId(pid, 2), NumId(2), <<"a">>)>>

\* The service keeps no uniqueness of reactions: version v holds the LIKE
\* of user 1 as many times as it was sent, v times.
ServerPost(pid, v) ==
  [ id |-> pid,
    title |-> IF pid = 1 THEN <<"A", "b">> ELSE <<"b">>,
    content |-> <<"m">>,
    tags |-> IF pid = 1 THEN <<"A", ",", " ", "M">>
             ELSE IF pid = 2 THEN <<"B">> ELSE <<>>,
    user |-> [id |-> NumId(IF pid = 1 THEN 1 ELSE 2), followers |-> <<>>],
    comments |-> ServerComments(pid, v),
    reactions |-> [i \in 1 .. v |->
                     [userId |-> NumId(1), reactionType |-> "LIKE"]] ]

ServerPosts(pid) == {ServerPost(pid, v) : v \in Versions}

\* The sequences getPosts may resolve to: no post, the oldest post alone, or
\* all posts at one version, newest id first
Feeds ==
  {<<>>} \cup {<<ServerPost(1, v)>> : v \in Versions} \cup
  {[i \in 1 .. MaxPosts |-> ServerPost(MaxPosts + 1 - i, v)] : v \in Versions}

\* The follower sequences followUser may resolve to
FollowerSeqs == {<<NumId(2)>>}

CommentIds == {CommentId(pid, k) : pid \in PostIds, k \in 1 .. 2}

-----------------------------------------------------------------------------
(* View projector: the body of useEffect[selectedTag, searchQuery, posts]  *)
AllTag == <<"A", "l", "l">>

\* posts.flatMap((post) => post.tags ? post.tags.split(",").map(trim) : [])
RECURSIVE FlatTags(_)
FlatTags(ps) ==
  IF ps = <<>> THEN <<>>
  ELSE (IF Head(ps).tags # <<>> THEN TagTokens(Head(ps).tags) ELSE <<>>)
         \o FlatTags(Tail(ps))

\* a buggy [...new Set(s)]: the values are not made unique
SetOrderKeepAll(s, seen) == seen \o s

\* [...new Set(s)]: the values of s in insertion order, each kept once
RECURSIVE SetOrder(_, _)
SetOrder(s, seen) ==
  IF s = <<>> THEN seen
  ELSE SetOrder(Tail(s), IF InSeq(Head(s), seen) THEN seen
                         ELSE Append(seen, Head(s)))

\* getUniqueTags (lines 69-72)
getUniqueTags(ps) == <<AllTag>> \o SetOrder(FlatTags(ps), <<>>)

\* What the user types into the search box
Queries == {<<>>, <<" ">>, <<"A">>}

\* a buggy filter: the title and the content are searched as they are
ApplyFilterCaseSensitive(ps, tag, query) ==
  LET byTag ==
        IF tag # AllTag
          THEN SelectSeqBy(ps, {p \in Range(ps) :
                 p.tags # <<>> /\ InSeq(tag, TagTokens(p.tags))})
          ELSE ps
      q == Trim(ToLowerCase(query))
  IN IF Trim(query) # <<>>
       THEN SelectSeqBy(byTag, {p \in Range(byTag) :
              \/ Includes(p.title, q)
              \/ Includes(p.content, q)})
       ELSE byTag

\* the body of useEffect[selectedTag, searchQuery, posts] (lines 75-87)
ApplyFilter(ps, tag, query) ==
  LET byTag ==
        IF tag # AllTag
          THEN SelectSeqBy(ps, {p \in Range(ps) :
                 p.tags # <<>> /\ InSeq(tag, TagTokens(p.tags))})
          ELSE ps
      q == Trim(ToLowerCase(query))
  IN IF Trim(query) # <<>>
       THEN SelectSeqBy(byTag, {p \in Range(byTag) :
              \/ Includes(ToLowerCase(p.title), q)
              \/ Includes(ToLowerCase(p.content), q)})
       ELSE byTag

\* posts.map((p) => (p.id === postId ? updatedPost : p))
ReplaceById(ps, postId, updatedPost) ==
  [i \in 1 .. Len(ps) |-> IF ps[i].id = postId THEN updatedPost ELSE ps[i]]

\* p.comments.filter((c) => c.id !== commentId)
WithoutComment(cs, commentId) ==
  SelectSeqBy(cs, {c \in Range(cs) : c.id # commentId})

\* posts.map((p) => p.id === postId ? { ...p, comments: ... } : p)
RemoveComment(ps, postId, commentId) ==
  [i \in 1 .. Len(ps) |->
     IF ps[i].id = postId
       THEN [ps[i] EXCEPT !.comments = WithoutComment(@, commentId)]
       ELSE ps[i]]

\* posts.map((p) => p.id === postId ? { ...p, user: { ...p.user, followers } } : p)
PatchFollowers(ps, postId, followers) ==
  [i \in 1 .. Len(ps) |->
     IF ps[i].id = postId
       THEN [ps[i] EXCEPT !.user.followers = followers]
       ELSE ps[i]]

\* a buggy getReactionCount: the reactions of every type are counted
getReactionCountOfAll(post, type) == Len(post.reactions)

\* getReactionCount (line 248)
getReactionCount(post, type) ==
  Len(SelectSeqBy(post.reactions,
                  {r \in Range(post.reactions) : r.reactionType = type}))

\* Array.prototype.some with the predicate given as a set of values
RECURSIVE Some(_, _)
Some(s, hits) ==
  IF s = <<>> THEN FALSE ELSE Head(s) \in hits \/ Some(Tail(s), hits)

\* hasUserReacted (line 249); === compares the ids with their types
hasUserReacted(post, type) ==
  Some(post.reactions,
       {r \in Range(post.reactions) :
          r.userId = user.id /\ r.reactionType = type})

HasId(ps, postId) == \E i \in 1 .. Len(ps) : ps[i].id = postId

PostOf(ps, postId) == ps[CHOOSE i \in 1 .. Len(ps) : ps[i].id = postId]

-----------------------------------------------------------------------------
(* Values standing for JavaScript null / undefined *)
NoId == 0
NoUser == [id |-> NumId(0), token |-> ""]
NoPost == [id |-> 0]
NoDrafts == [i \in PostIds |-> <<>>]

\* The messages the component passes to setError
SessionExpiredMsg == "Session expired. Please log in again."
FetchFailedMsg == "Failed to load posts. Please try again later."
FollowFailedMsg == "Failed to follow user. Please try again."
NoTokenMsg == "No authentication token found. Please log in."
RemoteErrorMsg == "Request failed"

\* err.response?.status of a rejected remote call: 0 when there is no response
Unauthorized == 401
ServerError == 500
NoResponse == 0
FailStatuses == {Unauthorized, ServerError}

\* A remote call in flight, with what the handler's closure captured
Request(op, postId, commentId, ps, drafts) ==
  [op |-> op, postId |-> postId, commentId |-> commentId,
   posts |-> ps, newComments |-> drafts]

GetPostsRequest == Request("getPosts", NoId, NoId, <<>>, NoDrafts)

NoRequest == Request("none", NoId, NoId, <<>>, NoDrafts)

\* The record kept in `last`: which event the last step was
Event(ev, op, status, req, issued, log, data) ==
  [ev |-> ev, op |-> op, status |-> status, postId |-> req.postId,
   commentId |-> req.commentId, issued |-> issued, log |-> log, data |-> data]

InFlight == BagToSet(inflight)
CanIssue == BagCardinality(inflight) < MaxInFlight /\ calls < MaxCalls
Sent(r) == inflight (+) SetToBag({r})
Received(r) == inflight (-) SetToBag({r})

\* history: the version of each post id the store was last given, NoPost for
\* an id the store was not given since it was last replaced or cleared
Deliver(ps) ==
  [i \in PostIds |-> IF HasId(ps, i) THEN PostOf(ps, i) ELSE NoPost]
DeliverOne(postId, p) == [delivered EXCEPT ![postId] = p]

UiEvent(op) == Event("ui", op, NoResponse, NoRequest, FALSE, "", <<>>)

\* one more UI-only event
Gesture ==
  /\ gestures < MaxGestures
  /\ gestures' = gestures + 1

-----------------------------------------------------------------------------
Init ==
  /\ user = NoUser
  /\ showAuthForm = FALSE
  /\ isLogin = TRUE
  /\ posts = <<>>
  /\ filteredPosts = <<>>
  /\ loading = FALSE
  /\ newComments = NoDrafts
  /\ editingCommentId = NoId
  /\ editedCommentText = <<>>
  /\ activeCommentPostId = NoId
  /\ showReactions = NoId
  /\ showShareOptions = NoId
  /\ selectedTag = AllTag
  /\ searchQuery = <<>>
  /\ error = ""
  /\ inflight = EmptyBag
  /\ calls = 0
  /\ gestures = 0
  /\ delivered = [i \in PostIds |-> NoPost]
  /\ last = Event("init", "none", NoResponse, NoRequest, FALSE, "", <<>>)

-----------------------------------------------------------------------------
(* Session Context.  AuthContext is not part of the page: login and logout *)
(* are taken to set and clear the session.                                 *)

\* logout(): the session is cleared
LogoutUser == NoUser

\* a buggy useEffect[user]: the else branch is missing
ClearStoreSkipped == UNCHANGED <<posts, filteredPosts, delivered>>

\* useEffect[user], else branch (lines 63-66), run when the session is cleared
ClearStore ==
  /\ posts' = <<>>
  /\ filteredPosts' = ApplyFilter(<<>>, selectedTag, searchQuery)
  /\ delivered' = Deliver(<<>>)

\* a buggy fetchPosts whose early exit skips the reset of loading
FetchPostsStartNoFinally(u, e) ==
  IF u.token = ""
    THEN /\ loading' = TRUE
         /\ error' = FetchFailedMsg
         /\ UNCHANGED <<inflight, calls>>
    ELSE /\ CanIssue
         /\ loading' = TRUE
         /\ inflight' = Sent(GetPostsRequest)
         /\ calls' = calls + 1
         /\ error' = e

\* fetchPosts up to its await (lines 36-42) and, when the token is missing,
\* through its catch and finally (lines 45-57); e is the error message set
\* when fetchPosts starts
FetchPostsStart(u, e) ==
  IF u.token = ""
    THEN /\ loading' = FALSE
         /\ error' = FetchFailedMsg
         /\ UNCHANGED <<inflight, calls>>
    ELSE /\ CanIssue
         /\ loading' = TRUE
         /\ inflight' = Sent(GetPostsRequest)
         /\ calls' = calls + 1
         /\ error' = e

\* handleAuthSubmit resolving (lines 230-241: the session is set and the
\* error message reset), then useEffect[user] (60-62).  The modal is left as
\* it is: only the Cancel button and the page's handlers set showAuthForm.
LoginSucceeds(u) ==
  /\ showAuthForm
  /\ user' = u
  /\ FetchPostsStart(u, "")
  /\ last' = Event("login", "fetchPosts", NoResponse, NoRequest, u.token # "",
                   IF u.token = "" THEN NoTokenMsg ELSE "", <<>>)
  /\ UNCHANGED <<showAuthForm, isLogin, posts, filteredPosts, newComments,
                 editingCommentId, editedCommentText, activeCommentPostId,
                 showReactions,
                 showShareOptions, filterVars, gestures, delivered>>

\* logout() from outside the page, then useEffect[user] (lines 63-66)
Logout ==
  /\ user # NoUser
  /\ user' = LogoutUser
  /\ ClearStore
  /\ last' = Event("logout", "none", NoResponse, NoRequest, FALSE, "", <<>>)
  /\ UNCHANGED <<showAuthForm, isLogin, loading, uiVars, filterVars, netVars,
                 gestures>>

\* "Start Teaching" (lines 305-308)
OpenRegisterForm ==
  /\ ~(showAuthForm /\ ~isLogin)
  /\ showAuthForm' = TRUE
  /\ isLogin' = FALSE
  /\ last' = UiEvent("openAuth")
  /\ UNCHANGED <<user, storeVars, uiVars, filterVars, netVars, gestures,
                 delivered>>

\* the modal's Cancel button (line 713)
CancelAuthForm ==
  /\ showAuthForm
  /\ showAuthForm' = FALSE
  /\ Gesture
  /\ last' = UiEvent("cancelAuth")
  /\ UNCHANGED <<user, isLogin, storeVars, uiVars, filterVars, netVars,
                 delivered>>

-----------------------------------------------------------------------------
(* The 401 branch every catch block shares (lines 47-51, 98-103, ...):     *)
(* logout(), setShowAuthForm(true), setIsLogin(true), setError(...); then  *)
(* useEffect[user] clears the store if the session changed.                *)
SessionExpired ==
  /\ user' = LogoutUser
  /\ showAuthForm' = TRUE
  /\ isLogin' = TRUE
  /\ error' = SessionExpiredMsg
  /\ IF user # user'
       THEN ClearStore
       ELSE UNCHANGED <<posts, filteredPosts, delivered>>

\* a buggy setPosts: the filter effect does not run, filteredPosts is what
\* setFilteredPosts(postsData) left
SetPostsUnfiltered(ps) ==
  /\ posts' = ps
  /\ filteredPosts' = ps

\* a buggy setPosts: the new posts are appended to the old ones
SetPostsAppending(ps) ==
  /\ posts' = posts \o ps
  /\ filteredPosts' = ApplyFilter(posts \o ps, selectedTag, searchQuery)

\* setPosts(ps), then useEffect[selectedTag, searchQuery, posts]
SetPosts(ps) ==
  /\ posts' = ps
  /\ filteredPosts' = ApplyFilter(ps, selectedTag, searchQuery)

\* a fenced fetchPosts: a post the store already holds keeps its stored
\* version, only new posts are taken from the response
GetPostsOkKeepingStored(r, postsData) ==
  /\ r.op = "getPosts"
  /\ SetPosts([i \in 1 .. Len(postsData) |->
                IF HasId(posts, postsData[i].id)
                  THEN PostOf(posts, postsData[i].id)
                  ELSE postsData[i]])
  /\ loading' = FALSE
  /\ inflight' = Received(r)
  /\ UNCHANGED gestures
  /\ delivered' = Deliver(postsData)
  /\ last' = Event("response", "getPosts", 200, r, FALSE, "", postsData)
  /\ UNCHANGED <<ctxVars, uiVars, filterVars, calls>>

\* getPosts resolves (lines 42-44, 56)
GetPostsOk(r, postsData) ==
  /\ r.op = "getPosts"
  /\ SetPosts(postsData)
  /\ loading' = FALSE
  /\ inflight' = Received(r)
  /\ UNCHANGED gestures
  /\ delivered' = Deliver(postsData)
  /\ last' = Event("response", "getPosts", 200, r, FALSE, "", postsData)
  /\ UNCHANGED <<ctxVars, uiVars, filterVars, calls>>

\* a buggy catch block: a failed refresh empties the store
FetchCatchClearing(status) ==
  IF status = Unauthorized
    THEN SessionExpired
    ELSE /\ error' = FetchFailedMsg
         /\ ClearStore
         /\ UNCHANGED ctxVars

\* the catch block of fetchPosts (lines 45-54)
FetchCatch(status) ==
  IF status = Unauthorized
    THEN SessionExpired
    ELSE /\ error' = FetchFailedMsg
         /\ UNCHANGED <<ctxVars, posts, filteredPosts, delivered>>

\* a buggy fetchPosts: a failure other than 401 calls getPosts again
GetPostsFailRetrying(r, status) ==
  /\ r.op = "getPosts"
  /\ FetchCatch(status)
  /\ IF status = Unauthorized
       THEN loading' = FALSE /\ inflight' = Received(r) /\ UNCHANGED calls
       ELSE /\ calls < MaxCalls
            /\ loading' = TRUE
            /\ inflight' = inflight
            /\ calls' = calls + 1
  /\ UNCHANGED gestures
  /\ last' = Event("response", "getPosts", status, r, FALSE, RemoteErrorMsg, <<>>)
  /\ UNCHANGED <<newComments, editingCommentId, editedCommentText,
                 activeCommentPostId, showReactions,
                 showShareOptions, filterVars>>

\* getPosts rejects (lines 45-57)
GetPostsFail(r, status) ==
  /\ r.op = "getPosts"
  /\ FetchCatch(status)
  /\ loading' = FALSE
  /\ inflight' = Received(r)
  /\ UNCHANGED gestures
  /\ last' = Event("response", "getPosts", status, r, FALSE, RemoteErrorMsg, <<>>)
  /\ UNCHANGED <<newComments, editingCommentId, editedCommentText,
                 activeCommentPostId, showReactions,
                 showShareOptions, filterVars, calls>>

-----------------------------------------------------------------------------
(* Render gates: a post's controls exist when the grid is shown and the    *)
(* post is in filteredPosts (lines 385-396)                                *)
Rendered(postId) == ~loading /\ HasId(filteredPosts, postId)

\* the comment section of the post is open (line 548)
CommentsShown(postId) == Rendered(postId) /\ activeCommentPostId = postId

RenderedComments(postId) == Range(PostOf(filteredPosts, postId).comments)

\* user && String(user.id) === String(comment.user.id) (lines 108, 592)
IsAuthor(u, c) == u # NoUser /\ JsString(u.id) = JsString(c.user.id)

\* a handler that returned before its remote call
Returned(op, postId, commentId) ==
  Event("call", op, NoResponse, Request(op, postId, commentId, <<>>, NoDrafts),
        FALSE, "", <<>>)

\* a handler that reached its await
Awaiting(op, r) == Event("call", op, NoResponse, r, TRUE, "", <<>>)

Issue(r) ==
  /\ CanIssue
  /\ inflight' = Sent(r)
  /\ calls' = calls + 1

-----------------------------------------------------------------------------
(* Ephemeral UI events *)

\* toggleCommentSection (lines 150-152)
toggleCommentSection(postId) ==
  /\ Rendered(postId)
  /\ activeCommentPostId' = IF activeCommentPostId = postId THEN NoId ELSE postId
  /\ Gesture
  /\ last' = UiEvent("toggleCommentSection")
  /\ UNCHANGED <<ctxVars, storeVars, newComments, editingCommentId,
                 editedCommentText, showReactions,
                 showShareOptions, error, filterVars, netVars,
                 delivered>>

\* setNewComments({ ...newComments, [post.id]: e.target.value }) (line 620)
setNewComments(postId, text) ==
  /\ text # newComments[postId]
  /\ newComments' = [newComments EXCEPT ![postId] = text]
  /\ Gesture
  /\ last' = UiEvent("typeDraft")
  /\ UNCHANGED <<ctxVars, storeVars, editingCommentId, editedCommentText,
                 activeCommentPostId, showReactions,
                 showShareOptions, error, filterVars,
                 netVars, delivered>>

\* the draft input's onChange (lines 615-621)
TypeDraft(postId, text) ==
  /\ user # NoUser
  /\ CommentsShown(postId)
  /\ setNewComments(postId, text)

\* startEditingComment (lines 107-111) behind the pencil button (592-600)
startEditingComment(comment) ==
  /\ IF ~IsAuthor(user, comment)
       THEN UNCHANGED <<editingCommentId, editedCommentText>>
       ELSE /\ editingCommentId' = comment.id
            /\ editedCommentText' = comment.text
  /\ Gesture
  /\ last' = UiEvent("startEditingComment")
  /\ UNCHANGED <<ctxVars, storeVars, newComments, activeCommentPostId,
                 showReactions,
                 showShareOptions, error, filterVars, netVars, delivered>>

ClickEdit(postId) ==
  /\ CommentsShown(postId)
  /\ \E c \in RenderedComments(postId) :
       /\ editingCommentId # c.id
       /\ IsAuthor(user, c)
       /\ startEditingComment(c)

\* some rendered comment is in edit mode (line 559)
EditBoxShown(postId, commentId) ==
  /\ CommentsShown(postId)
  /\ commentId = editingCommentId
  /\ \E c \in RenderedComments(postId) : c.id = commentId

\* setEditedCommentText(e.target.value) (line 563)
setEditedCommentText(text) ==
  /\ text # editedCommentText
  /\ editedCommentText' = text
  /\ Gesture
  /\ last' = UiEvent("typeEdit")
  /\ UNCHANGED <<ctxVars, storeVars, newComments, editingCommentId,
                 activeCommentPostId, showReactions,
                 showShareOptions, error, filterVars,
                 netVars, delivered>>

\* the edit textarea's onChange (lines 559-563)
TypeEdit(text) ==
  /\ \E postId \in PostIds : EditBoxShown(postId, editingCommentId)
  /\ setEditedCommentText(text)

\* the edit box's Cancel button (line 576)
CancelEdit ==
  /\ \E postId \in PostIds : EditBoxShown(postId, editingCommentId)
  /\ editingCommentId' = NoId
  /\ Gesture
  /\ last' = UiEvent("cancelEdit")
  /\ UNCHANGED <<ctxVars, storeVars, newComments, editedCommentText,
                 activeCommentPostId, showReactions,
                 showShareOptions, error, filterVars,
                 netVars, delivered>>

\* onMouseEnter / onMouseLeave of the reaction button (lines 453-454)
HoverReactions(postId) ==
  /\ \/ postId # NoId /\ Rendered(postId)
     \/ postId = NoId /\ \E q \in PostIds : Rendered(q)
  /\ showReactions # postId
  /\ showReactions' = postId
  /\ Gesture
  /\ last' = UiEvent("hoverReactions")
  /\ UNCHANGED <<ctxVars, storeVars, newComments, editingCommentId,
                 editedCommentText, activeCommentPostId, showShareOptions,
                 error, filterVars, netVars, delivered>>

\* toggleShareOptions (lines 196-204) behind the Share button (502-509)
toggleShareOptions(postId) ==
  /\ Rendered(postId)
  /\ showShareOptions' = IF showShareOptions = postId THEN NoId ELSE postId
  /\ Gesture
  /\ last' = UiEvent("toggleShareOptions")
  /\ UNCHANGED <<ctxVars, storeVars, newComments, editingCommentId,
                 editedCommentText, activeCommentPostId, showReactions, error,
                 filterVars, netVars, delivered>>

\* the timer of line 202 closes the share panel; while a panel is open the
\* timer of the click that opened it is still pending
ShareTimeout ==
  /\ showShareOptions # NoId
  /\ showShareOptions' = NoId
  /\ last' = UiEvent("shareTimeout")
  /\ UNCHANGED <<ctxVars, storeVars, newComments, editingCommentId,
                 editedCommentText, activeCommentPostId, showReactions, error,
                 filterVars, netVars, gestures, delivered>>

\* handleShare (lines 208-228) behind the buttons of the open share panel
\* (lines 511-541): the page's own state only loses the open panel
handleShare(postId) ==
  /\ Rendered(postId)
  /\ showShareOptions = postId
  /\ showShareOptions' = NoId
  /\ Gesture
  /\ last' = UiEvent("handleShare")
  /\ UNCHANGED <<ctxVars, storeVars, newComments, editingCommentId,
                 editedCommentText, activeCommentPostId, showReactions, error,
                 filterVars, netVars, delivered>>

-----------------------------------------------------------------------------
(* Mutation Coordinator: each handler up to its await *)

\* a buggy handleCommentSubmit: the draft is tested without trim()
handleCommentSubmitUntrimmed(postId) ==
  /\ IF user = NoUser \/ newComments[postId] = <<>>
       THEN /\ last' = Returned("commentOnPost", postId, NoId)
            /\ UNCHANGED netVars
       ELSE LET r == Request("commentOnPost", postId, NoId, posts, newComments)
            IN Issue(r) /\ last' = Awaiting("commentOnPost", r)
  /\ UNCHANGED <<ctxVars, storeVars, uiVars, filterVars, gestures, delivered>>

\* handleCommentSubmit, lines 90-93
handleCommentSubmit(postId) ==
  /\ IF user = NoUser \/ Trim(newComments[postId]) = <<>>
       THEN /\ last' = Returned("commentOnPost", postId, NoId)
            /\ UNCHANGED netVars
       ELSE LET r == Request("commentOnPost", postId, NoId, posts, newComments)
            IN Issue(r) /\ last' = Awaiting("commentOnPost", r)
  /\ UNCHANGED <<ctxVars, storeVars, uiVars, filterVars, gestures, delivered>>

\* handleCommentUpdate, lines 113-116
handleCommentUpdate(postId, commentId) ==
  /\ IF user = NoUser \/ Trim(editedCommentText) = <<>>
       THEN /\ last' = Returned("updateComment", postId, commentId)
            /\ UNCHANGED netVars
       ELSE LET r == Request("updateComment", postId, commentId, posts, NoDrafts)
            IN Issue(r) /\ last' = Awaiting("updateComment", r)
  /\ UNCHANGED <<ctxVars, storeVars, uiVars, filterVars, gestures, delivered>>

\* handleCommentDelete, lines 131-134
handleCommentDelete(postId, commentId) ==
  /\ IF user = NoUser
       THEN /\ last' = Returned("deleteComment", postId, commentId)
            /\ UNCHANGED netVars
       ELSE LET r == Request("deleteComment", postId, commentId, posts, NoDrafts)
            IN Issue(r) /\ last' = Awaiting("deleteComment", r)
  /\ UNCHANGED <<ctxVars, storeVars, uiVars, filterVars, gestures, delivered>>

\* a buggy handleReaction: the session is not tested
handleReactionUnguarded(postId, reactionType) ==
  /\ LET r == Request("addReaction", postId, NoId, posts, NoDrafts)
     IN Issue(r) /\ last' = Awaiting("addReaction", r)
  /\ UNCHANGED <<ctxVars, storeVars, uiVars, filterVars, gestures, delivered>>

\* handleReaction, lines 154-157; reactionType only travels to the service
handleReaction(postId, reactionType) ==
  /\ IF user = NoUser
       THEN /\ last' = Returned("addReaction", postId, NoId)
            /\ UNCHANGED netVars
       ELSE LET r == Request("addReaction", postId, NoId, posts, NoDrafts)
            IN Issue(r) /\ last' = Awaiting("addReaction", r)
  /\ UNCHANGED <<ctxVars, storeVars, uiVars, filterVars, gestures, delivered>>

\* handleFollowPost, lines 171-178; userId only travels to the service
handleFollowPost(postId, userId) ==
  IF user = NoUser
    THEN /\ showAuthForm' = TRUE
         /\ isLogin' = TRUE
         /\ last' = Returned("followUser", postId, NoId)
         /\ UNCHANGED <<user, storeVars, uiVars, filterVars, netVars, gestures,
                        delivered>>
    ELSE LET r == Request("followUser", postId, NoId, posts, NoDrafts)
         IN /\ Issue(r)
            /\ last' = Awaiting("followUser", r)
            /\ UNCHANGED <<ctxVars, storeVars, uiVars, filterVars, gestures, delivered>>

(* The controls that invoke the handlers *)

\* the Post button (lines 615-630)
ClickPostComment(postId) ==
  /\ user # NoUser
  /\ CommentsShown(postId)
  /\ handleCommentSubmit(postId)

\* the Update button of a comment in edit mode (lines 559-574)
ClickUpdate(postId) ==
  \E c \in CommentIds :
    /\ EditBoxShown(postId, c)
    /\ handleCommentUpdate(postId, c)

\* the trash button (lines 592, 601-607)
ClickDelete(postId) ==
  /\ CommentsShown(postId)
  /\ \E c \in RenderedComments(postId) :
       /\ editingCommentId # c.id
       /\ IsAuthor(user, c)
       /\ handleCommentDelete(postId, c.id)

\* a button of the reaction panel (lines 464-484)
ClickReaction(postId) ==
  /\ Rendered(postId)
  /\ showReactions = postId
  /\ user # NoUser
  /\ \E t \in ReactionTypes : handleReaction(postId, t)

\* the Follow button (lines 421-428)
ClickFollow(postId) ==
  /\ Rendered(postId)
  /\ user # NoUser
  /\ user.id # PostOf(filteredPosts, postId).user.id
  /\ handleFollowPost(postId, PostOf(filteredPosts, postId).user.id)

\* the tag control writing its selection into the feed store as well
setSelectedTagNarrowingStore(tag) ==
  /\ InSeq(tag, getUniqueTags(posts))
  /\ tag # selectedTag
  /\ selectedTag' = tag
  /\ filteredPosts' = ApplyFilter(posts, tag, searchQuery)
  /\ posts' = filteredPosts'
  /\ Gesture
  /\ last' = UiEvent("setSelectedTag")
  /\ UNCHANGED <<ctxVars, loading, uiVars, searchQuery, netVars, delivered>>

\* the tag select (lines 368-377): one of the options getUniqueTags gives,
\* then useEffect[selectedTag, searchQuery, posts]
setSelectedTag(tag) ==
  /\ InSeq(tag, getUniqueTags(posts))
  /\ tag # selectedTag
  /\ selectedTag' = tag
  /\ filteredPosts' = ApplyFilter(posts, tag, searchQuery)
  /\ Gesture
  /\ last' = UiEvent("setSelectedTag")
  /\ UNCHANGED <<ctxVars, posts, loading, uiVars, searchQuery, netVars,
                 delivered>>

\* the search box and its clear button (lines 342-364), then
\* useEffect[selectedTag, searchQuery, posts]
setSearchQuery(query) ==
  /\ query # searchQuery
  /\ searchQuery' = query
  /\ filteredPosts' = ApplyFilter(posts, selectedTag, query)
  /\ Gesture
  /\ last' = UiEvent("setSearchQuery")
  /\ UNCHANGED <<ctxVars, posts, loading, uiVars, selectedTag, netVars,
                 delivered>>

-----------------------------------------------------------------------------
(* Mutation Coordinator: each handler from its await on.  r.posts and      *)
(* r.newComments are the values of the render the handler was created in.  *)

Response(r, status, data) ==
  Event("response", r.op, status, r, FALSE,
        IF status = 200 THEN "" ELSE RemoteErrorMsg, data)

\* history: after a local patch the store holds this version of the post
DeliverLocal(ps, postId) ==
  IF HasId(ps, postId) THEN DeliverOne(postId, PostOf(ps, postId)) ELSE delivered

\* a buggy catch block: every failure is taken for an expired session
MutationCatchAlwaysExpires(status) == SessionExpired

\* the catch blocks of the comment and reaction handlers
\* (lines 96-104, 120-128, 139-147, 159-167)
MutationCatch(status) ==
  IF status = Unauthorized
    THEN SessionExpired
    ELSE UNCHANGED <<ctxVars, posts, filteredPosts, error, delivered>>

\* commentOnPost resolves (lines 93-95)
CommentOnPostOk(r, updatedPost) ==
  /\ r.op = "commentOnPost"
  /\ SetPosts(ReplaceById(r.posts, r.postId, updatedPost))
  /\ newComments' = [r.newComments EXCEPT ![r.postId] = <<>>]
  /\ inflight' = Received(r)
  /\ UNCHANGED gestures
  /\ delivered' = DeliverOne(r.postId, updatedPost)
  /\ last' = Response(r, 200, updatedPost)
  /\ UNCHANGED <<ctxVars, loading, editingCommentId, editedCommentText,
                 activeCommentPostId, showReactions,
                 showShareOptions, error, filterVars, calls>>

\* commentOnPost rejects (lines 96-104)
CommentOnPostFail(r, status) ==
  /\ r.op = "commentOnPost"
  /\ MutationCatch(status)
  /\ inflight' = Received(r)
  /\ UNCHANGED gestures
  /\ last' = Response(r, status, <<>>)
  /\ UNCHANGED <<loading, newComments, editingCommentId, editedCommentText,
                 activeCommentPostId, showReactions,
                 showShareOptions, filterVars, calls>>

\* updateComment resolves (lines 116-119)
UpdateCommentOk(r, updatedPost) ==
  /\ r.op = "updateComment"
  /\ SetPosts(ReplaceById(r.posts, r.postId, updatedPost))
  /\ editingCommentId' = NoId
  /\ editedCommentText' = <<>>
  /\ inflight' = Received(r)
  /\ UNCHANGED gestures
  /\ delivered' = DeliverOne(r.postId, updatedPost)
  /\ last' = Response(r, 200, updatedPost)
  /\ UNCHANGED <<ctxVars, loading, newComments, activeCommentPostId,
                 showReactions, showShareOptions, error, filterVars, calls>>

\* updateComment rejects (lines 120-128)
UpdateCommentFail(r, status) ==
  /\ r.op = "updateComment"
  /\ MutationCatch(status)
  /\ inflight' = Received(r)
  /\ UNCHANGED gestures
  /\ last' = Response(r, status, <<>>)
  /\ UNCHANGED <<loading, newComments, editingCommentId, editedCommentText,
                 activeCommentPostId, showReactions,
                 showShareOptions, filterVars, calls>>

\* deleteComment resolves (lines 134-138)
DeleteCommentOk(r) ==
  /\ r.op = "deleteComment"
  /\ SetPosts(RemoveComment(r.posts, r.postId, r.commentId))
  /\ editingCommentId' = NoId
  /\ inflight' = Received(r)
  /\ UNCHANGED gestures
  /\ delivered' = DeliverLocal(RemoveComment(r.posts, r.postId, r.commentId),
                               r.postId)
  /\ last' = Response(r, 200, <<>>)
  /\ UNCHANGED <<ctxVars, loading, newComments, editedCommentText,
                 activeCommentPostId, showReactions,
                 showShareOptions, error, filterVars, calls>>

\* deleteComment rejects (lines 139-147)
DeleteCommentFail(r, status) ==
  /\ r.op = "deleteComment"
  /\ MutationCatch(status)
  /\ inflight' = Received(r)
  /\ UNCHANGED gestures
  /\ last' = Response(r, status, <<>>)
  /\ UNCHANGED <<loading, newComments, editingCommentId, editedCommentText,
                 activeCommentPostId, showReactions,
                 showShareOptions, filterVars, calls>>

\* addReaction resolves (lines 157-158, 168)
AddReactionOk(r, updatedPost) ==
  /\ r.op = "addReaction"
  /\ SetPosts(ReplaceById(r.posts, r.postId, updatedPost))
  /\ showReactions' = NoId
  /\ inflight' = Received(r)
  /\ UNCHANGED gestures
  /\ delivered' = DeliverOne(r.postId, updatedPost)
  /\ last' = Response(r, 200, updatedPost)
  /\ UNCHANGED <<ctxVars, loading, newComments, editingCommentId,
                 editedCommentText, activeCommentPostId, showShareOptions,
                 error, filterVars, calls>>

\* addReaction rejects (lines 159-168)
AddReactionFail(r, status) ==
  /\ r.op = "addReaction"
  /\ MutationCatch(status)
  /\ showReactions' = NoId
  /\ inflight' = Received(r)
  /\ UNCHANGED gestures
  /\ last' = Response(r, status, <<>>)
  /\ UNCHANGED <<loading, newComments, editingCommentId, editedCommentText,
                 activeCommentPostId, showShareOptions, filterVars, calls>>

\* followUser resolves (lines 178-182)
FollowUserOk(r, followers) ==
  /\ r.op = "followUser"
  /\ SetPosts(PatchFollowers(r.posts, r.postId, followers))
  /\ inflight' = Received(r)
  /\ UNCHANGED gestures
  /\ delivered' = DeliverLocal(PatchFollowers(r.posts, r.postId, followers),
                               r.postId)
  /\ last' = Response(r, 200, followers)
  /\ UNCHANGED <<ctxVars, loading, uiVars, filterVars, calls>>

\* followUser rejects (lines 183-193)
FollowUserFail(r, status) ==
  /\ r.op = "followUser"
  /\ IF status = Unauthorized
       THEN SessionExpired
       ELSE /\ error' = FollowFailedMsg
            /\ UNCHANGED <<ctxVars, posts, filteredPosts, delivered>>
  /\ inflight' = Received(r)
  /\ UNCHANGED gestures
  /\ last' = Response(r, status, <<>>)
  /\ UNCHANGED <<loading, newComments, editingCommentId, editedCommentText,
                 activeCommentPostId, showReactions,
                 showShareOptions, filterVars, calls>>

-----------------------------------------------------------------------------
(* The steps of the component, grouped by the part of the page they belong *)
(* to.                                                                     *)

\* the session changes and the auth modal is opened or closed
SessionStep ==
  \/ \E u \in Sessions : LoginSucceeds(u)
  \/ Logout
  \/ OpenRegisterForm
  \/ CancelAuthForm

\* a refresh completes
FetchStep ==
  \E r \in InFlight :
    \/ \E postsData \in Feeds : GetPostsOk(r, postsData)
    \/ \E status \in FailStatuses : GetPostsFail(r, status)

\* reactions and follows: the controls of a post card
CardUiStep ==
  \/ \E postId \in PostIds \cup {NoId} : HoverReactions(postId)
  \/ \E postId \in PostIds :
       \/ ClickReaction(postId)
       \/ ClickFollow(postId)

\* a reaction or a follow completes
CardCompletes ==
  \E r \in InFlight :
    \/ \E updatedPost \in ServerPosts(r.postId) : AddReactionOk(r, updatedPost)
    \/ \E followers \in FollowerSeqs : FollowUserOk(r, followers)
    \/ \E status \in FailStatuses :
         \/ AddReactionFail(r, status)
         \/ FollowUserFail(r, status)

\* comments: the controls of a comment section
CommentUiStep ==
  \/ \E postId \in PostIds :
       \/ toggleCommentSection(postId)
       \/ \E text \in Texts : TypeDraft(postId, text)
       \/ ClickEdit(postId)
       \/ ClickPostComment(postId)
       \/ ClickUpdate(postId)
       \/ ClickDelete(postId)
  \/ \E text \in Texts : TypeEdit(text)
  \/ CancelEdit

\* a comment mutation completes
CommentCompletes ==
  \E r \in InFlight :
    \/ \E updatedPost \in ServerPosts(r.postId) :
         \/ CommentOnPostOk(r, updatedPost)
         \/ UpdateCommentOk(r, updatedPost)
    \/ DeleteCommentOk(r)
    \/ \E status \in FailStatuses :
         \/ CommentOnPostFail(r, status)
         \/ UpdateCommentFail(r, status)
         \/ DeleteCommentFail(r, status)

\* the filter controls
FilterStep ==
  \/ \E tag \in Range(getUniqueTags(posts)) : setSelectedTag(tag)
  \/ \E query \in Queries : setSearchQuery(query)

\* The handlers invoked directly, as the operations the page exposes, with no
\* render gate in front of them
CallStep ==
  \E postId \in PostIds :
    \/ handleCommentSubmit(postId)
    \/ \E k \in 1 .. 2 :
         \/ handleCommentUpdate(postId, CommentId(postId, k))
         \/ handleCommentDelete(postId, CommentId(postId, k))
    \/ \E t \in ReactionTypes : handleReaction(postId, t)
    \/ handleFollowPost(postId, NumId(postId))

\* The whole page
Next ==
  \/ SessionStep
  \/ FetchStep
  \/ CardUiStep
  \/ CardCompletes
  \/ CommentUiStep
  \/ CommentCompletes

Spec == Init /\ [][Next]_vars

\* The page with the comment sections left closed
NextCards == SessionStep \/ FetchStep \/ CardUiStep \/ CardCompletes

SpecCards == Init /\ [][NextCards]_vars

\* The page with the reaction panels and Follow buttons left alone
NextComments == SessionStep \/ FetchStep \/ CommentUiStep \/ CommentCompletes

SpecComments == Init /\ [][NextComments]_vars

\* a follow completes
FollowCompletes ==
  \E r \in InFlight :
    \/ \E followers \in FollowerSeqs : FollowUserOk(r, followers)
    \/ \E status \in FailStatuses : FollowUserFail(r, status)

\* The filter controls over the feed, with the Follow buttons
NextFilter ==
  \/ SessionStep
  \/ FetchStep
  \/ FilterStep
  \/ \E postId \in PostIds : ClickFollow(postId)
  \/ FollowCompletes

SpecFilter == Init /\ [][NextFilter]_vars

\* The view projector as a function of its inputs: the tags and titles the
\* service may give to a post
ViewTags ==
  { <<>>, <<"A">>, <<"B">>, <<"A", ",", " ", "B">>, <<"B", ",", ",", "A">>,
    <<" ", "A", " ", ",", "A">>, <<"A", "l", "l">> }

ViewTitles == { <<>>, <<"b">>, <<"A", "b">> }

ViewPost(pid, title, tags) ==
  [ServerPost(pid, 1) EXCEPT !.title = title, !.tags = tags]

ViewPosts(pid) == {ViewPost(pid, title, tags) : title \in ViewTitles,
                                                tags \in ViewTags}

ViewFeeds ==
  {<<>>} \cup {<<p>> : p \in ViewPosts(1)} \cup
  {<<p, q>> : p \in ViewPosts(2), q \in ViewPosts(1)}

ViewQueries ==
  { <<>>, <<" ">>, <<"A">>, <<" ", "B">>, <<"M">>, <<"a", "b", " ">> }

\* the page after a session was set and its refresh resolved to any feed
InitView ==
  /\ user = [id |-> NumId(1), token |-> "t1"]
  /\ showAuthForm = FALSE
  /\ isLogin = TRUE
  /\ posts \in ViewFeeds
  /\ filteredPosts = ApplyFilter(posts, AllTag, <<>>)
  /\ loading = FALSE
  /\ newComments = NoDrafts
  /\ editingCommentId = NoId
  /\ editedCommentText = <<>>
  /\ activeCommentPostId = NoId
  /\ showReactions = NoId
  /\ showShareOptions = NoId
  /\ selectedTag = AllTag
  /\ searchQuery = <<>>
  /\ error = ""
  /\ inflight = EmptyBag
  /\ calls = 1
  /\ gestures = 0
  /\ delivered = Deliver(posts)
  /\ last = Response(GetPostsRequest, 200, posts)

NextView ==
  \/ \E tag \in Range(getUniqueTags(posts)) : setSelectedTag(tag)
  \/ \E query \in ViewQueries : setSearchQuery(query)

SpecView == InitView /\ [][NextView]_vars

\* The reaction projections as functions of their inputs: the reactions the
\* service may give to a post
Reaction(uid, t) == [userId |-> uid, reactionType |-> t]

ViewReactions ==
  { <<>>,
    <<Reaction(NumId(1), "LIKE")>>,
    <<Reaction(NumId(1), "LIKE"), Reaction(NumId(1), "LIKE")>>,
    <<Reaction(NumId(2), "LOVE"), Reaction(NumId(1), "LIKE")>>,
    <<Reaction(StrId(1), "LIKE")>> }

ReactedPosts(pid) ==
  {[ServerPost(pid, 1) EXCEPT !.reactions = rs] : rs \in ViewReactions}

ReactionFeeds ==
  {<<p>> : p \in ReactedPosts(1)} \cup
  {<<p, q>> : p \in ReactedPosts(2), q \in ReactedPosts(1)}

\* the page after a session was set and its refresh resolved to any feed
InitReactions ==
  /\ user \in Sessions
  /\ showAuthForm = FALSE
  /\ isLogin = TRUE
  /\ posts \in ReactionFeeds
  /\ filteredPosts = ApplyFilter(posts, AllTag, <<>>)
  /\ loading = FALSE
  /\ newComments = NoDrafts
  /\ editingCommentId = NoId
  /\ editedCommentText = <<>>
  /\ activeCommentPostId = NoId
  /\ showReactions = NoId
  /\ showShareOptions = NoId
  /\ selectedTag = AllTag
  /\ searchQuery = <<>>
  /\ error = ""
  /\ inflight = EmptyBag
  /\ calls = 1
  /\ gestures = 0
  /\ delivered = Deliver(posts)
  /\ last = Response(GetPostsRequest, 200, posts)

\* the reaction panels are opened and closed; each render shows the counts
\* (lines 490-491) and, in the open panel, the user's own reactions (474, 481)
NextReactions == \E postId \in PostIds \cup {NoId} : HoverReactions(postId)

SpecReactions == InitReactions /\ [][NextReactions]_vars

\* a comment deletion completes
DeleteCompletes ==
  \E r \in InFlight :
    \/ DeleteCommentOk(r)
    \/ \E status \in FailStatuses : DeleteCommentFail(r, status)

\* The handlers of the page called in any state by any caller (the drafts and
\* the edit box stay empty, so no comment is submitted or updated)
NextCalls ==
  \/ \E u \in Sessions : LoginSucceeds(u)
  \/ Logout
  \/ FetchStep
  \/ CallStep
  \/ CardCompletes
  \/ DeleteCompletes

SpecCalls == Init /\ [][NextCalls]_vars

\* a loaded page: a session, a feed of all posts and one comment section open
InitDrafts ==
  /\ user = [id |-> NumId(1), token |-> "t1"]
  /\ showAuthForm = FALSE
  /\ isLogin = TRUE
  /\ posts \in {f \in Feeds : Len(f) = MaxPosts}
  /\ filteredPosts = ApplyFilter(posts, AllTag, <<>>)
  /\ loading = FALSE
  /\ newComments = NoDrafts
  /\ editingCommentId = NoId
  /\ editedCommentText = <<>>
  /\ activeCommentPostId \in PostIds
  /\ showReactions = NoId
  /\ showShareOptions = NoId
  /\ selectedTag = AllTag
  /\ searchQuery = <<>>
  /\ error = ""
  /\ inflight = EmptyBag
  /\ calls = 1
  /\ gestures = 0
  /\ delivered = Deliver(posts)
  /\ last = UiEvent("toggleCommentSection")

\* a submitted comment completes
SubmitCompletes ==
  \E r \in InFlight :
    \/ \E updatedPost \in ServerPosts(r.postId) : CommentOnPostOk(r, updatedPost)
    \/ \E status \in FailStatuses : CommentOnPostFail(r, status)

\* the drafts of the comment sections: typed, submitted, and the submissions
\* completing
NextDrafts ==
  \/ \E postId \in PostIds :
       \/ toggleCommentSection(postId)
       \/ \E text \in Texts : TypeDraft(postId, text)
       \/ ClickPostComment(postId)
  \/ SubmitCompletes

SpecDrafts == InitDrafts /\ [][NextDrafts]_vars

\* the share panel: its button, its timer and its three targets
ShareStep ==
  \/ \E postId \in PostIds :
       \/ toggleShareOptions(postId)
       \/ handleShare(postId)
  \/ ShareTimeout

\* drafts and edit mode, with no comment mutation issued
DraftStep ==
  \/ \E postId \in PostIds :
       \/ toggleCommentSection(postId)
       \/ \E text \in Texts : TypeDraft(postId, text)
       \/ ClickEdit(postId)
  \/ \E text \in Texts : TypeEdit(text)
  \/ CancelEdit

\* The feed store under everything that does and does not write it: session
\* changes, refreshes, a mutation (follow), filters, panels, drafts, edit mode
NextWrites ==
  \/ SessionStep /\ calls' <= MaxWriteCalls
  \/ FetchStep
  \/ FilterStep
  \/ (\E postId \in PostIds : ClickFollow(postId)) /\ calls' <= MaxWriteCalls
  \/ FollowCompletes
  \/ \E postId \in PostIds \cup {NoId} : HoverReactions(postId)
  \/ ShareStep
  \/ DraftStep

SpecWrites == Init /\ [][NextWrites]_vars

-----------------------------------------------------------------------------
(* Properties.  `last` describes the step that led to the current state,   *)
(* so a property of a step's outcome is a state predicate over `last`, and *)
(* a property relating the states before and after it is an action         *)
(* property over `last'`.                                                  *)

MutationOps ==
  {"commentOnPost", "updateComment", "deleteComment", "addReaction",
   "followUser"}

PatchOps == {"commentOnPost", "updateComment", "addReaction"}

\* the step just taken was the completion of a remote call
Responded(l) == l.ev = "response"

\* C1: whenever a remote call completes with status 401, the session is
\* cleared, the login form is open (showAuthForm and isLogin) and the Feed
\* Store is empty.
C1_UnauthorizedClearsStore ==
  (Responded(last) /\ last.status = Unauthorized) =>
    /\ user = NoUser
    /\ showAuthForm
    /\ isLogin
    /\ posts = <<>>

\* C2: every post in the Feed Store is the most recent version delivered for
\* its id by a successful refresh or a successful mutation.
C2_StoreHoldsLatestVersion ==
  \A i \in 1 .. Len(posts) :
    delivered[posts[i].id] # NoPost => posts[i] = delivered[posts[i].id]

\* C3: updateComment is issued for a comment only if the current user's id
\* equals, as a string, the id of the comment's author.
C3_OnlyAuthorUpdates ==
  (last.ev = "call" /\ last.op = "updateComment" /\ last.issued) =>
    \E i \in 1 .. Len(posts) :
      /\ posts[i].id = last.postId
      /\ \E c \in Range(posts[i].comments) :
           c.id = last.commentId /\ IsAuthor(user, c)

\* C4: a successful addComment, editComment or toggleReaction on postId puts
\* the returned post at the position of postId and leaves every other post,
\* the length and the order of the Feed Store as they were just before.
C4_PatchKeepsOtherPosts ==
  [][(Responded(last') /\ last'.status = 200 /\ last'.op \in PatchOps) =>
       /\ Len(posts') = Len(posts)
       /\ \A i \in 1 .. Len(posts) :
            posts'[i] = IF posts[i].id = last'.postId THEN last'.data
                        ELSE posts[i]]_vars

\* a mutation's remote call has just failed with a status other than 401
MutationFailed(l) ==
  /\ Responded(l)
  /\ l.op \in MutationOps
  /\ l.status \notin {200, Unauthorized}

\* the messages with which the page reports a failed mutation
MutationFailedMsgs == {FollowFailedMsg}

C6_RefreshReplacesStore ==
  (Responded(last) /\ last.op = "getPosts" /\ last.status = 200) =>
    /\ posts = last.data
    /\ filteredPosts = ApplyFilter(last.data, selectedTag, searchQuery)

C6_Witness ==
  /\ Responded(last) /\ last.op = "getPosts" /\ last.status = 200
  /\ calls > 1
  /\ Len(posts) = MaxPosts
  /\ posts[1].id > posts[2].id

\* C7: a refresh failing with a status other than 401 leaves the Feed Store
\* and the session as they were and sets the generic load-failure message.
C7_RefreshFailureKeepsStore ==
  [][(/\ Responded(last')
      /\ last'.op = "getPosts"
      /\ last'.status \notin {200, Unauthorized}) =>
       /\ posts' = posts
       /\ filteredPosts' = filteredPosts
       /\ error' = FetchFailedMsg
       /\ UNCHANGED ctxVars]_vars

C7_Witness ==
  /\ Responded(last) /\ last.op = "getPosts" /\ last.status = ServerError
  /\ posts # <<>>
  /\ user # NoUser
  /\ ~showAuthForm

\* C8: fetchPosts run for a session without a token contacts no service,
\* leaves the Feed Store alone, and reports an AuthRequired error that is
\* neither the load-failure nor the session-expired message.
C8_NoTokenIsAuthRequired ==
  [][(last'.ev = "login" /\ user'.token = "") =>
       /\ inflight' = inflight
       /\ posts' = posts
       /\ error' \notin {"", FetchFailedMsg, SessionExpiredMsg}]_vars

\* C9: addComment with an empty or whitespace-only draft, and editComment
\* with an empty or whitespace-only edited text, issue no remote call and
\* change no state of the page.
C9_BlankTextIsDropped ==
  [][(/\ last'.ev = "call"
      /\ \/ /\ last'.op = "commentOnPost"
            /\ Trim(newComments[last'.postId]) = <<>>
         \/ /\ last'.op = "updateComment"
            /\ Trim(editedCommentText) = <<>>) =>
       UNCHANGED <<ctxVars, storeVars, uiVars, filterVars, inflight>>]_vars

C9_Witness ==
  /\ last.ev = "call" /\ last.op = "commentOnPost" /\ ~last.issued
  /\ user # NoUser
  /\ newComments[last.postId] = <<" ">>

C11_SessionTransitionTriggersStore ==
  [][/\ (user' # user /\ user' # NoUser) =>
          /\ last'.ev = "login" /\ last'.op = "fetchPosts"
          /\ IF user'.token # ""
               THEN /\ calls' = calls + 1
                    /\ inflight' = Sent(GetPostsRequest)
                    /\ loading'
               ELSE calls' = calls /\ inflight' = inflight
     /\ (user' # user /\ user' = NoUser) =>
          /\ posts' = <<>>
          /\ filteredPosts' = <<>>
          /\ calls' = calls
          /\ \/ inflight' = inflight
             \/ \E r \in InFlight : inflight' = Received(r)]_vars

C11_Witness ==
  /\ last.ev = "login"
  /\ user.token # ""
  /\ posts # <<>>
  /\ BagCardinality(inflight) = 1

\* C12: in every state filteredPosts is the filter applied to the whole
\* current Feed Store with the current selectedTag and searchQuery.
C12_FilteredIsFilterOfStore ==
  filteredPosts = ApplyFilter(posts, selectedTag, searchQuery)

C12_Witness ==
  /\ Responded(last) /\ last.status = 200
  /\ selectedTag # AllTag
  /\ Trim(searchQuery) # <<>>
  /\ Len(posts) = MaxPosts
  /\ Len(filteredPosts) = 1

\* the tag tokens of a post; a post without tags has none
TokensOf(p) == IF p.tags = <<>> THEN {} ELSE Range(TagTokens(p.tags))

\* the order-preserving selection of the elements of ps at the indices in idx
IsSelection(out, ps, idx) ==
  /\ Len(out) = Cardinality(idx)
  /\ \A i \in idx : out[Cardinality({j \in idx : j < i}) + 1] = ps[i]

TagKeeps(p) == selectedTag = AllTag \/ selectedTag \in TokensOf(p)

\* C13 as stated: filteredPosts is the order-preserving selection of the posts
\* that carry selectedTag among their trimmed tag tokens (all posts for
\* "All") and, for a query that is not blank, whose title or content
\* contains the trimmed, lower-cased query.
C13_FilterSelectsByTagAndQuery ==
  LET q == Trim(ToLowerCase(searchQuery))
      keeps(p) == /\ TagKeeps(p)
                  /\ \/ Trim(searchQuery) = <<>>
                     \/ Includes(p.title, q)
                     \/ Includes(p.content, q)
  IN IsSelection(filteredPosts, posts,
                 {i \in 1 .. Len(posts) : keeps(posts[i])})

\* C13 amended: as above, with the title and the content lower-cased before
\* they are searched for the trimmed, lower-cased query.
C13_FilterSelectsIgnoringCase ==
  LET q == Trim(ToLowerCase(searchQuery))
      keeps(p) == /\ TagKeeps(p)
                  /\ \/ Trim(searchQuery) = <<>>
                     \/ Includes(ToLowerCase(p.title), q)
                     \/ Includes(ToLowerCase(p.content), q)
  IN IsSelection(filteredPosts, posts,
                 {i \in 1 .. Len(posts) : keeps(posts[i])})

C13_Witness ==
  /\ selectedTag = <<"A">>
  /\ searchQuery = <<"a", "b", " ">>
  /\ Len(posts) = 2
  /\ filteredPosts = <<posts[2]>>
  /\ posts[1].title = <<"A", "b">>
  /\ posts[2].title = <<"A", "b">>

\* no two reaction entries of the post have the same userId and reactionType
NoDuplicateReactions(p) ==
  \A i, j \in 1 .. Len(p.reactions) :
    (/\ p.reactions[i].userId = p.reactions[j].userId
     /\ p.reactions[i].reactionType = p.reactions[j].reactionType) => i = j

ReactionOk(l) == Responded(l) /\ l.op = "addReaction" /\ l.status = 200

\* C14: after two successive successful reactions of the same user (user 1,
\* whose LIKE the service holds) on the same post, the post held in the Feed
\* Store has no two reaction entries with the same userId and reactionType.
C14_SecondReactionReplaces ==
  [][(/\ ReactionOk(last) /\ ReactionOk(last')
      /\ last'.postId = last.postId
      /\ user.id = NumId(1) /\ user' = user) =>
       \A i \in 1 .. Len(posts') :
         posts'[i].id = last'.postId => NoDuplicateReactions(posts'[i])]_vars

\* C15: a successful deleteComment(postId, commentId) leaves the Feed Store
\* as it was just before, except that the comment commentId is removed from
\* the comments of post postId, the other comments keeping their order; no
\* remote call is issued.
C15_DeleteRemovesOneComment ==
  [][(/\ Responded(last')
      /\ last'.op = "deleteComment"
      /\ last'.status = 200) =>
       /\ posts' = RemoveComment(posts, last'.postId, last'.commentId)
       /\ calls' = calls]_vars

\* C16: a successful follow(postId, targetUserId) leaves the Feed Store as it
\* was just before, except that the followers of the author of post postId
\* are the followers the service returned.
C16_FollowPatchesFollowersOnly ==
  [][(/\ Responded(last')
      /\ last'.op = "followUser"
      /\ last'.status = 200) =>
       posts' = PatchFollowers(posts, last'.postId, last'.data)]_vars

\* the places <<post index, token index>> of the tag tokens of the posts
TokenPlaces ==
  UNION {{<<i, k>> : k \in 1 .. Len(TagTokens(posts[i].tags))} :
         i \in {j \in 1 .. Len(posts) : posts[j].tags # <<>>}}

TokenAt(a) == TagTokens(posts[a[1]].tags)[a[2]]

PlaceBefore(a, b) == a[1] < b[1] \/ (a[1] = b[1] /\ a[2] < b[2])

FirstPlace(t) ==
  CHOOSE a \in TokenPlaces :
    /\ TokenAt(a) = t
    /\ \A b \in TokenPlaces : TokenAt(b) = t => ~PlaceBefore(b, a)

\* C17: getUniqueTags gives "All" first, then every distinct trimmed tag
\* token of the posts exactly once, in the order of their first occurrence
\* across the posts; a post without tags contributes nothing.
C17_UniqueTagsInFirstOccurrenceOrder ==
  LET out == getUniqueTags(posts)
      rest == Tail(out)
  IN /\ out[1] = AllTag
     /\ \A i, j \in 1 .. Len(rest) : rest[i] = rest[j] => i = j
     /\ Range(rest) = {TokenAt(a) : a \in TokenPlaces}
     /\ \A i, j \in 1 .. Len(rest) :
          i < j => PlaceBefore(FirstPlace(rest[i]), FirstPlace(rest[j]))

C17_Witness ==
  /\ Len(posts) = 2
  /\ posts[1].tags = <<"B", ",", ",", "A">>
  /\ posts[2].tags = <<" ", "A", " ", ",", "A">>
  /\ getUniqueTags(posts) = <<AllTag, <<"B">>, <<>>, <<"A">>>>
  /\ selectedTag = <<"A">>

\* C18: for every post and reaction type, getReactionCount is the number of
\* entries of post.reactions of that type (0 when there are none), and
\* hasUserReacted holds exactly when some entry has the current user's id
\* and that type.
C18_ReactionProjections ==
  \A i \in 1 .. Len(posts) : \A t \in ReactionTypes :
    LET rs == posts[i].reactions
    IN /\ getReactionCount(posts[i], t) =
            Cardinality({k \in 1 .. Len(rs) : rs[k].reactionType = t})
       /\ hasUserReacted(posts[i], t) <=>
            \E k \in 1 .. Len(rs) :
              rs[k].userId = user.id /\ rs[k].reactionType = t

C18_Witness ==
  /\ Len(posts) = 2
  /\ showReactions = posts[1].id
  /\ user.id = NumId(1)
  /\ getReactionCount(posts[1], "LIKE") = 2
  /\ hasUserReacted(posts[1], "LIKE")
  /\ getReactionCount(posts[2], "LOVE") = 1
  /\ ~hasUserReacted(posts[2], "LOVE")

\* C19: a step issues at most one remote call, only a user action or a
\* session change issues one, and the completion of a call (success, 401 or
\* any other failure) issues none.
C19_NoAutomaticRetry ==
  [][/\ calls' \in {calls, calls + 1}
     /\ BagCardinality(inflight') <= BagCardinality(inflight) + 1
     /\ calls' = calls + 1 => last'.ev \in {"call", "login"}
     /\ Responded(last') =>
          /\ calls' = calls
          /\ \E r \in InFlight : inflight' = Received(r)]_vars

C19_Witness ==
  /\ Responded(last)
  /\ last.status = ServerError
  /\ user # NoUser
  /\ calls > 1
  /\ inflight = EmptyBag

MutationOk(l) == Responded(l) /\ l.op \in MutationOps /\ l.status = 200

\* what the completion l makes of the posts ps
Reconciled(ps, l) ==
  CASE l.op \in PatchOps -> ReplaceById(ps, l.postId, l.data)
    [] l.op = "deleteComment" -> RemoveComment(ps, l.postId, l.commentId)
    [] l.op = "followUser" -> PatchFollowers(ps, l.postId, l.data)

\* C20: when a mutation completes right after another one, what it writes to
\* the Feed Store is computed from the Feed Store as the first completion
\* left it, not from posts as they were before its remote call.
C20_CompletionReadsCurrentStore ==
  [][(MutationOk(last) /\ MutationOk(last')) =>
       posts' = Reconciled(posts, last')]_vars

PatchOk(l) == Responded(l) /\ l.op \in PatchOps /\ l.status = 200

RefreshOk(l) == Responded(l) /\ l.op = "getPosts" /\ l.status = 200

\* every post at its oldest version, newest id first
OldestFeed == [i \in 1 .. MaxPosts |-> ServerPost(MaxPosts + 1 - i, 1)]

\* C21: refreshes are not fenced against mutations: a refresh that completes
\* right after the patch of a mutation, hence was in flight when the patch was
\* applied, replaces the whole Feed Store by what it fetched, the patched post
\* included, also when what it fetched is older than the patch.
C21_RefreshOverwritesPatch ==
  [][(PatchOk(last) /\ RefreshOk(last')) => posts' = last'.data]_vars

\* a patch to the newest version was just applied while a refresh is in
\* flight, and the refresh can resolve to the oldest version of every post
C21_Witness ==
  /\ PatchOk(last)
  /\ HasId(posts, last.postId)
  /\ PostOf(posts, last.postId) = last.data
  /\ last.data = ServerPost(last.postId, MaxVersions)
  /\ last.data # ServerPost(last.postId, 1)
  /\ GetPostsRequest \in InFlight
  /\ ENABLED GetPostsOk(GetPostsRequest, OldestFeed)

\* the step just taken changed a filter control
FilterChanged == selectedTag' # selectedTag \/ searchQuery' # searchQuery

\* the step just taken ended the session
SessionLost == user # NoUser /\ user' = NoUser

\* C22: writes are pessimistic: the feed store changes only in a step that is
\* a successful refresh response, a successful mutation response or the session
\* becoming absent; a step that issues a request, a failure response that
\* leaves the session as it is, a filter change and a UI-only event leave
\* posts unchanged, and a filter change issues no remote call.
C22_WritesArePessimistic ==
  [][/\ posts' # posts => RefreshOk(last') \/ MutationOk(last') \/ SessionLost
     /\ last'.issued => posts' = posts
     /\ (Responded(last') /\ last'.status # 200 /\ ~SessionLost)
          => posts' = posts
     /\ FilterChanged
          => posts' = posts /\ calls' = calls /\ inflight' = inflight
     /\ last'.ev = "ui" => posts' = posts /\ inflight' = inflight]_vars

\* a search was just typed that hides a stored post while a call is in flight
C22_Witness ==
  /\ last = UiEvent("setSearchQuery")
  /\ posts # <<>>
  /\ Len(filteredPosts) < Len(posts)
  /\ InFlight # {}

\* C23: while the session is absent the feed store is empty: no response to a
\* call issued under the earlier session repopulates posts after the logout.
C23_AbsentSessionKeepsStoreEmpty == user = NoUser => posts = <<>>

\* C24: a successful addComment on post p clears the draft of p and leaves
\* every other draft as it is when the response arrives; a failed addComment
\* leaves every draft unchanged.
C24_SubmitClearsOnlyItsDraft ==
  [][(Responded(last') /\ last'.op = "commentOnPost") =>
       IF last'.status = 200
         THEN newComments' = [newComments EXCEPT ![last'.postId] = <<>>]
         ELSE newComments' = newComments]_vars

\* a refresh is awaiting its response
RefreshInFlight == GetPostsRequest \in InFlight

\* C25: loading is false whenever no refresh is in flight: a fetchPosts that
\* issues its call leaves loading true, and every exit of fetchPosts (success,
\* missing token, 401, other failure) leaves it false, also when refreshes
\* overlap.
C25_LoadingOnlyWhileRefreshing ==
  [][/\ ~RefreshInFlight' => ~loading'
     /\ (last'.ev = "login" /\ last'.issued) => loading'
     /\ (last'.ev = "login" /\ ~last'.issued) => ~loading'
     /\ (Responded(last') /\ last'.op = "getPosts") => ~loading']_vars

\* the second of two overlapping refreshes just failed, none is left in flight
C25_Witness ==
  /\ Responded(last)
  /\ last.op = "getPosts"
  /\ last.status = ServerError
  /\ calls >= 2
  /\ InFlight = {}
  /\ delivered # Deliver(<<>>)
  /\ ~loading

====
